---- MODULE Spec2Model ----
(***************************************************************************)
(* CmdMetaData (bifrost/services/core/commanding/cmd_meta_data.py): the    *)
(* metadata record that travels with a command through the uplink          *)
(* pipeline.  The model keeps Python's object semantics where they matter: *)
(* a record is an object with attributes, `processors` holds a REFERENCE   *)
(* to a list object on the heap, attribute assignment rebinds, and         *)
(* list.append mutates the list object in place.                           *)
(***************************************************************************)
EXTENDS Integers, Sequences, FiniteSets, TLC

(***************************************************************************)
(* Python values, tagged with their type.                                  *)
(***************************************************************************)
None == <<"NoneType">>
PyInt(i) == <<"int", i>>
PyBool(b) == <<"bool", b>>
PyBytes(s) == <<"bytes", s>>
\* A str.  Ordinary text is a TLA+ string; text that the program compares
\* or builds character by character (timestamps) is a sequence of characters.
PyStr(s) == <<"str", s>>
\* A reference to the list object at heap address a.
PyList(a) == <<"list", a>>

(***************************************************************************)
(* Bounds of the model.                                                    *)
(***************************************************************************)
\* The clock reading (in units of 10^-precision s) when the process starts;
\* chosen so that the readings of a run cross a power of ten.
BootTime == 9
\* How many times the clock advances in a run.
MaxTicks == 2
\* The longest provenance trail.
MaxProcs == 2
\* The longest stage script replayed on a sibling record.
MaxScript == 2

\* The two records of the model: a command and a sibling of the same script.
Primary == "a"
Sibling == "b"
Records == {Primary, Sibling}

\* uuid.uuid4(): a random draw; the code does nothing to make draws differ.
Uuid4 == {1, 2}
UuidText == <<"1b4e28ba-2fa1-4d3b-a3f5-ef19b5a7633b",
              "6fa459ea-ee8a-4ca4-894e-db77e160355e">>

\* What pipeline stages write.
StageBytes == {PyBytes("1A2B")}
StageNames == {"encoder", "framer"}

VARIABLES
    clock,      \* Time.now(): the process's wall clock
    heap,       \* the list objects, by address (a sequence of lists)
    rec,        \* the constructed records: name -> object (its attributes)
    ret,        \* the value the last call of marshall/__repr__/unmarshall returned
    given,      \* per record, the keyword arguments it was constructed with
    appended,   \* per record, the names appended to its trail, in call order
    script,     \* the stage updates applied to Primary, in order
    pos         \* how many of them have been replayed on Sibling

vars == <<clock, heap, rec, ret, given, appended, script, pos>>

(***************************************************************************)
(* Time: gps_timestamp_now.                                                *)
(***************************************************************************)
\* Time(..., precision=9): digits after the decimal point of the text form.
precision == 9

DigitChar == <<"0", "1", "2", "3", "4", "5", "6", "7", "8", "9">>

\* The w low decimal digits of n, zero-padded, most significant first.
RECURSIVE Digits(_, _)
Digits(n, w) ==
    IF w = 0 THEN <<>>
    ELSE Append(Digits(n \div 10, w - 1), DigitChar[(n % 10) + 1])

\* n in decimal without padding.
RECURSIVE Decimal(_)
Decimal(n) ==
    IF n < 10 THEN <<DigitChar[n + 1]>>
    ELSE Append(Decimal(n \div 10), DigitChar[(n % 10) + 1])

\* A slip: the fraction printed without its leading zeros.
IsoTextUnpadded(t) ==
    Digits(t \div (10 ^ precision), 2) \o <<".">> \o Decimal(t % (10 ^ precision))

\* t.format = 'iso'; str(t): every field of the ISO text is fixed-width and
\* zero-padded.  The date, hour and minute fields are constant over a run
\* and left out: what remains is "ss.fffffffff".
IsoText(t) ==
    Digits(t \div (10 ^ precision), 2) \o <<".">> \o Digits(t % (10 ^ precision), precision)

\* gps_timestamp_now(iso_string) at clock reading now.
gps_timestamp_now(now, iso_string) ==
    IF ~iso_string THEN <<"Time", now>> ELSE PyStr(IsoText(now))

(***************************************************************************)
(* Identity: get_uid.                                                      *)
(***************************************************************************)
\* str(uuid.uuid4()) for the draw u.
get_uid(u) == PyStr(UuidText[u])

(***************************************************************************)
(* The dataclass: fields, defaults, construction.                          *)
(***************************************************************************)
\* A slip: a record that starts out valid.
FieldDefaultValid ==
    [payload_string |-> None, payload_bytes |-> None, apid |-> None,
     valid |-> PyBool(TRUE), sequence |-> PyInt(1), total |-> PyInt(1),
     vcid |-> PyInt(0), uid |-> None, uplink_id |-> None]

\* The annotated fields with a plain default (lines 29-37).
FieldDefault ==
    [payload_string |-> None, payload_bytes |-> None, apid |-> None,
     valid |-> PyBool(FALSE), sequence |-> PyInt(1), total |-> PyInt(1),
     vcid |-> PyInt(0), uid |-> None, uplink_id |-> None]

\* start_time_gps and finish_time_gps carry no annotation: they are class
\* attributes, not dataclass fields, and an instance reads None through the
\* class until it is assigned its own.
ClassAttr == [start_time_gps |-> None, finish_time_gps |-> None]

Attrs == DOMAIN FieldDefault \cup {"processors"} \cup DOMAIN ClassAttr

\* A slip: one list made when the class is defined and shared by every record.
SharedDefaultList(h) ==
    IF h = <<>> THEN [addr |-> 1, heap |-> <<<<>>>>] ELSE [addr |-> 1, heap |-> h]

\* field(default_factory=list): list() allocates a new, empty list object.
default_factory(h) == [addr |-> Len(h) + 1, heap |-> Append(h, <<>>)]

\* The generated __init__ with keyword arguments kw; a is the address of
\* the list the default factory made.
dataclass_init(kw, a) ==
    [f \in Attrs |->
        IF f = "processors" THEN PyList(a)
        ELSE IF f \in DOMAIN ClassAttr THEN ClassAttr[f]
        ELSE IF f \in DOMAIN kw THEN kw[f]
        ELSE FieldDefault[f]]

\* __post_init__: timestamp, then uid.
post_init(self, now, u) ==
    [self EXCEPT !.start_time_gps = gps_timestamp_now(now, TRUE),
                 !.uid = get_uid(u)]

\* The list object a record's processors attribute refers to.
Processors(r) == heap[rec[r].processors[2]]

Init ==
    /\ clock = BootTime
    /\ heap = <<>>
    /\ rec = <<>>
    /\ ret = [kind |-> "nocall"]
    /\ given = <<>>
    /\ appended = <<>>
    /\ script = <<>>
    /\ pos = 0

\* CmdMetaData(**kw), drawing uuid u.
Construct(r, kw, u) ==
    /\ r \notin DOMAIN rec
    /\ LET new == default_factory(heap)
       IN /\ rec' = rec @@ (r :> post_init(dataclass_init(kw, new.addr), clock, u))
          /\ heap' = new.heap
    /\ given' = given @@ (r :> kw)
    /\ appended' = appended @@ (r :> <<>>)
    /\ UNCHANGED <<clock, ret, script, pos>>

\* Time passes.
Tick ==
    /\ clock < BootTime + MaxTicks
    /\ clock' = clock + 1
    /\ UNCHANGED <<heap, rec, ret, given, appended, script, pos>>

(***************************************************************************)
(* The wire form: marshall, __repr__, unmarshall.                          *)
(***************************************************************************)
\* A slip: a tag written out by hand that is not the class's name.
TypeNameByHand == "CommandMetadata"

\* type(self).__name__: the name of the class.
TypeName == "CmdMetaData"

NoneText == <<"N", "o", "n", "e">>

\* str(v) for the values a timestamp attribute holds: a str is returned as
\* it is, None becomes the text "None".
str(v) == IF v = None THEN PyStr(NoneText) ELSE v

\* The keys of the mapping, in the order marshall inserts them.
KeyOrder ==
    <<"data_type", "payload_string", "apid", "uid", "payload_bytes", "vcid",
      "sequence", "total", "valid", "processors", "start_time_gps",
      "finish_time_gps", "uplink_id">>

\* A slip: res['vcid'] = self.apid.
marshall_vcid_slip(self) ==
    ("data_type" :> PyStr(TypeName))
    @@ ("payload_string" :> self.payload_string)
    @@ ("apid" :> self.apid)
    @@ ("uid" :> self.uid)
    @@ ("payload_bytes" :> self.payload_bytes)
    @@ ("vcid" :> self.apid)
    @@ ("sequence" :> self.sequence)
    @@ ("total" :> self.total)
    @@ ("valid" :> self.valid)
    @@ ("processors" :> self.processors)
    @@ ("start_time_gps" :> str(self.start_time_gps))
    @@ ("finish_time_gps" :> str(self.finish_time_gps))
    @@ ("uplink_id" :> self.uplink_id)

\* A slip: res['uplink_id'] = self.uid.
marshall_uid_slip(self) ==
    ("data_type" :> PyStr(TypeName))
    @@ ("payload_string" :> self.payload_string)
    @@ ("apid" :> self.apid)
    @@ ("uid" :> self.uid)
    @@ ("payload_bytes" :> self.payload_bytes)
    @@ ("vcid" :> self.vcid)
    @@ ("sequence" :> self.sequence)
    @@ ("total" :> self.total)
    @@ ("valid" :> self.valid)
    @@ ("processors" :> self.processors)
    @@ ("start_time_gps" :> str(self.start_time_gps))
    @@ ("finish_time_gps" :> str(self.finish_time_gps))
    @@ ("uplink_id" :> self.uid)

\* marshall(self): the dict res.  The value under 'processors' is
\* self.processors itself, the reference, not a copy of the list.
marshall(self) ==
    ("data_type" :> PyStr(TypeName))
    @@ ("payload_string" :> self.payload_string)
    @@ ("apid" :> self.apid)
    @@ ("uid" :> self.uid)
    @@ ("payload_bytes" :> self.payload_bytes)
    @@ ("vcid" :> self.vcid)
    @@ ("sequence" :> self.sequence)
    @@ ("total" :> self.total)
    @@ ("valid" :> self.valid)
    @@ ("processors" :> self.processors)
    @@ ("start_time_gps" :> str(self.start_time_gps))
    @@ ("finish_time_gps" :> str(self.finish_time_gps))
    @@ ("uplink_id" :> self.uplink_id)

\* What a mapping shows when it is read with the list objects as they are in
\* heap h: the reference under 'processors' replaced by the list's elements.
Seen(d, h) ==
    [k \in DOMAIN d |-> IF d[k][1] = "list" THEN <<"list", h[d[k][2]]>> ELSE d[k]]

\* str(dict): the items in insertion order, each value rendered as it is at
\* the time of the call.
dict_str(d, h) == [i \in 1..Len(KeyOrder) |-> <<KeyOrder[i], Seen(d, h)[KeyOrder[i]]>>]

RECURSIVE Reverse(_)
Reverse(q) == IF q = <<>> THEN <<>> ELSE Append(Reverse(Tail(q)), Head(q))

\* A slip: marshall runs __post_init__ again before it builds the mapping.
MarshallRerunsPostInit(r) ==
    /\ r \in DOMAIN rec
    /\ \E u \in Uuid4 :
          /\ rec' = [rec EXCEPT ![r] = post_init(@, clock, u)]
          /\ ret' = [kind |-> "dict", self |-> r, value |-> marshall(rec'[r])]
    /\ UNCHANGED <<clock, heap, given, appended, script, pos>>

\* A slip: marshall puts the trail most-recent-first with list.reverse(),
\* which reorders the record's own list.
MarshallReversesTrail(r) ==
    /\ r \in DOMAIN rec
    /\ heap' = [heap EXCEPT ![rec[r].processors[2]] = Reverse(@)]
    /\ ret' = [kind |-> "dict", self |-> r, value |-> marshall(rec[r])]
    /\ UNCHANGED <<clock, rec, given, appended, script, pos>>

\* res = self.marshall(); return res
Marshall(r) ==
    /\ r \in DOMAIN rec
    /\ ret' = [kind |-> "dict", self |-> r, value |-> marshall(rec[r])]
    /\ UNCHANGED <<clock, heap, rec, given, appended, script, pos>>

\* __repr__: return str(self.marshall())
Repr(r) ==
    /\ r \in DOMAIN rec
    /\ ret' = [kind |-> "str", self |-> r, value |-> dict_str(marshall(rec[r]), heap)]
    /\ UNCHANGED <<clock, heap, rec, given, appended, script, pos>>

\* unmarshall: pass (returns None).
Unmarshall(r) ==
    /\ r \in DOMAIN rec
    /\ ret' = [kind |-> "NoneType", self |-> r, value |-> None]
    /\ UNCHANGED <<clock, heap, rec, given, appended, script, pos>>

(***************************************************************************)
(* What pipeline stages do to a record they hold: the dataclass is not     *)
(* frozen and defines no property or __setattr__, so every attribute is    *)
(* assigned directly.                                                      *)
(***************************************************************************)
\* record.payload_bytes = b
SetPayloadBytes(r, b) ==
    /\ r \in DOMAIN rec
    /\ rec' = [rec EXCEPT ![r].payload_bytes = b]
    /\ UNCHANGED <<clock, heap, ret, given, appended>>

\* record.valid = v
SetValid(r, v) ==
    /\ r \in DOMAIN rec
    /\ rec' = [rec EXCEPT ![r].valid = PyBool(v)]
    /\ UNCHANGED <<clock, heap, ret, given, appended>>

\* record.processors.append(name): the list object is changed in place.
AppendProcessor(r, name) ==
    /\ r \in DOMAIN rec
    /\ Len(Processors(r)) < MaxProcs
    /\ heap' = [heap EXCEPT ![rec[r].processors[2]] = Append(@, name)]
    /\ appended' = [appended EXCEPT ![r] = Append(@, name)]
    /\ UNCHANGED <<clock, rec, ret, given>>

\* record.finish_time_gps = CmdMetaData.gps_timestamp_now()
Finalize(r) ==
    /\ r \in DOMAIN rec
    /\ rec' = [rec EXCEPT ![r].finish_time_gps = gps_timestamp_now(clock, TRUE)]
    /\ UNCHANGED <<clock, heap, ret, given, appended, script, pos>>

(***************************************************************************)
(* Constructor arguments.                                                  *)
(***************************************************************************)
Omitted == <<"omitted">>

\* Per argument: omitted, or one of these values.
AllChoices ==
    [payload_string : {Omitted, PyStr("ENABLE_HEATER")},
     payload_bytes : {Omitted, PyBytes("0A")},
     apid : {Omitted, PyInt(418)},
     vcid : {Omitted, PyInt(1)},
     sequence : {Omitted, PyInt(1), PyInt(2)},
     total : {Omitted, PyInt(1), PyInt(5)},
     uplink_id : {Omitted, PyInt(7)}]

\* The keyword arguments of a choice: the arguments that are not omitted.
Kwargs(c) == [f \in {g \in DOMAIN c : c[g] # Omitted} |-> c[f]]

NoArgs == [f \in {"payload_string", "payload_bytes", "apid", "vcid", "sequence",
                  "total", "uplink_id"} |-> Omitted]

\* What the dictionary service passes: nothing, a one-shot command, a
\* command of a script.
PipelineChoices ==
    {NoArgs,
     [NoArgs EXCEPT !.payload_string = PyStr("ENABLE_HEATER"), !.apid = PyInt(418),
                    !.sequence = PyInt(1), !.total = PyInt(1)],
     [NoArgs EXCEPT !.sequence = PyInt(2), !.total = PyInt(5)]}

(***************************************************************************)
(* Spec: one record from construction through the pipeline, with what its  *)
(* calls return.                                                           *)
(***************************************************************************)
Next ==
    \/ \E c \in PipelineChoices, u \in Uuid4 : Construct(Primary, Kwargs(c), u)
    \/ Tick
    \/ \E b \in StageBytes : SetPayloadBytes(Primary, b) /\ UNCHANGED <<script, pos>>
    \/ \E v \in BOOLEAN : SetValid(Primary, v) /\ UNCHANGED <<script, pos>>
    \/ \E n \in StageNames : AppendProcessor(Primary, n) /\ UNCHANGED <<script, pos>>
    \/ Finalize(Primary)
    \/ Marshall(Primary)
    \/ Repr(Primary)
    \/ Unmarshall(Primary)

Spec == Init /\ [][Next]_vars

(***************************************************************************)
(* SpecCtor: construction with every combination of the arguments, and the *)
(* mapping of the fresh record.                                            *)
(***************************************************************************)
NextCtor ==
    \/ \E c \in AllChoices, u \in Uuid4 : Construct(Primary, Kwargs(c), u)
    \/ Tick
    \/ Marshall(Primary)

SpecCtor == Init /\ [][NextCtor]_vars

(***************************************************************************)
(* SpecSiblings: two records, constructed and appended to in any order.    *)
(***************************************************************************)
NextSiblings ==
    \/ \E r \in Records, c \in PipelineChoices, u \in Uuid4 : Construct(r, Kwargs(c), u)
    \/ Tick
    \/ \E r \in Records, n \in StageNames :
          AppendProcessor(r, n) /\ UNCHANGED <<script, pos>>

SpecSiblings == Init /\ [][NextSiblings]_vars

(***************************************************************************)
(* SpecScript: two records taken through the same stage updates.  A stage  *)
(* update of Primary is recorded in script; Sibling is given the recorded  *)
(* updates in the same order, while the clock runs.                         *)
(***************************************************************************)
StageUpdates ==
    {<<"payload_bytes", b>> : b \in StageBytes}
    \cup {<<"valid", v>> : v \in BOOLEAN}
    \cup {<<"processors", n>> : n \in StageNames}

\* The stage update op applied to record r.
StageUpdate(r, op) ==
    \/ op[1] = "payload_bytes" /\ SetPayloadBytes(r, op[2])
    \/ op[1] = "valid" /\ SetValid(r, op[2])
    \/ op[1] = "processors" /\ AppendProcessor(r, op[2])

ScriptStage(op) ==
    /\ Len(script) < MaxScript
    /\ StageUpdate(Primary, op)
    /\ script' = Append(script, op)
    /\ pos' = pos

ReplayStage ==
    /\ pos < Len(script)
    /\ StageUpdate(Sibling, script[pos + 1])
    /\ pos' = pos + 1
    /\ script' = script

NextScript ==
    \/ \E r \in Records, c \in PipelineChoices, u \in Uuid4 : Construct(r, Kwargs(c), u)
    \/ Tick
    \/ \E op \in StageUpdates : ScriptStage(op)
    \/ ReplayStage

SpecScript == Init /\ [][NextScript]_vars

(***************************************************************************)
(* The claims.                                                             *)
(***************************************************************************)
IsPrefix(p, q) == Len(p) <= Len(q) /\ SubSeq(q, 1, Len(p)) = p

\* Python orders str values by code point, character by character; these
\* are the characters of a timestamp in code point order.
CodePointOrder == <<".", "0", "1", "2", "3", "4", "5", "6", "7", "8", "9">>
Ord(c) == CHOOSE i \in 1..Len(CodePointOrder) : CodePointOrder[i] = c

\* s < t for the character sequences of two str values.
RECURSIVE StrLess(_, _)
StrLess(s, t) ==
    IF s = <<>> THEN t # <<>>
    ELSE IF t = <<>> THEN FALSE
    ELSE IF Head(s) = Head(t) THEN StrLess(Tail(s), Tail(t))
    ELSE Ord(Head(s)) < Ord(Head(t))

\* C1: a record's uid is set when the record is constructed, to a value
\* get_uid returns, and no later step (stage update, finalization, marshall,
\* unmarshall, __repr__) changes it.
C1_UidFixedAtConstruction ==
    [][\A r \in DOMAIN rec' :
          IF r \in DOMAIN rec
          THEN rec'[r].uid = rec[r].uid
          ELSE rec'[r].uid \in {get_uid(u) : u \in Uuid4}]_vars

\* A record that has been through every kind of operation.
C1_Witness ==
    /\ Primary \in DOMAIN rec
    /\ rec[Primary].payload_bytes = PyBytes("1A2B")
    /\ rec[Primary].valid = PyBool(TRUE)
    /\ Len(Processors(Primary)) = 2
    /\ rec[Primary].finish_time_gps # None
    /\ ret.kind = "str"

\* C2 (as claimed): once finish_time_gps of a record is set, no step gives
\* it another value.
C2_FinishSetOnce ==
    [][\A r \in DOMAIN rec :
          rec[r].finish_time_gps # None
          => rec'[r].finish_time_gps = rec[r].finish_time_gps]_vars

\* C3: whenever finish_time_gps is set, start_time_gps is not later than it
\* (as Python compares the two str values).
C3_StartNotAfterFinish ==
    \A r \in DOMAIN rec :
        rec[r].finish_time_gps # None
        => ~StrLess(rec[r].finish_time_gps[2], rec[r].start_time_gps[2])

\* A record finalized one tick after it was constructed, across a power of ten.
C3_Witness ==
    /\ Primary \in DOMAIN rec
    /\ rec[Primary].start_time_gps = PyStr(IsoText(BootTime))
    /\ rec[Primary].finish_time_gps = PyStr(IsoText(BootTime + 1))
    /\ StrLess(rec[Primary].start_time_gps[2], rec[Primary].finish_time_gps[2])

\* The keys the wire format names.
C4_Keys ==
    {"data_type", "payload_string", "apid", "uid", "payload_bytes", "vcid",
     "sequence", "total", "valid", "processors", "start_time_gps",
     "finish_time_gps", "uplink_id"}

\* The keys whose value is the record's attribute as it is.
C4_Copied ==
    {"payload_string", "apid", "uid", "payload_bytes", "vcid", "sequence",
     "total", "valid", "processors", "uplink_id"}

\* C4: in every state of a record, marshall() yields a mapping with exactly
\* the thirteen keys and, under each of the ten copied keys, the record's
\* current value.  A mapping a call has returned has those keys, and still
\* agrees with the record under every copied key that no stage has
\* reassigned since (stages reassign payload_bytes and valid).
C4_MarshallExact ==
    /\ \A r \in DOMAIN rec :
          LET res == marshall(rec[r])
          IN /\ DOMAIN res = C4_Keys
             /\ \A k \in C4_Copied : res[k] = rec[r][k]
    /\ ret.kind = "dict"
          => /\ DOMAIN ret.value = C4_Keys
             /\ \A k \in C4_Copied \ {"payload_bytes", "valid"} :
                   ret.value[k] = rec[ret.self][k]

\* A mapping just returned for a record that stages have worked on.
C4_Witness ==
    /\ ret.kind = "dict"
    /\ ret.value = marshall(rec[ret.self])
    /\ ret.value["payload_bytes"] = PyBytes("1A2B")
    /\ ret.value["valid"] = PyBool(TRUE)
    /\ Processors(ret.self) # <<>>

\* The documented defaults of the seven constructor arguments.
C5_Defaults ==
    [payload_string |-> None, payload_bytes |-> None, apid |-> None,
     vcid |-> PyInt(0), sequence |-> PyInt(1), total |-> PyInt(1),
     uplink_id |-> None]

\* C5: right after construction every given argument is stored as given,
\* every omitted one has its default (None, None, None, 0, 1, 1, None), valid
\* is False, processors is empty, uid is a non-empty str, start_time_gps is
\* set and finish_time_gps is not.
C5_FreshRecord ==
    \A r \in DOMAIN rec :
        /\ \A f \in DOMAIN C5_Defaults :
              rec[r][f] = IF f \in DOMAIN given[r] THEN given[r][f] ELSE C5_Defaults[f]
        /\ rec[r].valid = PyBool(FALSE)
        /\ Processors(r) = <<>>
        /\ rec[r].uid[1] = "str" /\ rec[r].uid[2] # ""
        /\ rec[r].start_time_gps[1] = "str" /\ Len(rec[r].start_time_gps[2]) > 0
        /\ rec[r].finish_time_gps = None

\* A record constructed with some arguments given and the others omitted.
C5_Witness ==
    /\ Primary \in DOMAIN rec
    /\ DOMAIN given[Primary] = {"payload_bytes", "vcid", "total"}
    /\ rec[Primary].total = PyInt(5)
    /\ rec[Primary].sequence = PyInt(1)

\* The scenario's construction: payload_string, apid, sequence=1, total=1.
C6_Scenario(r) ==
    /\ {"payload_string", "apid", "sequence", "total"} \subseteq DOMAIN given[r]
    /\ given[r].sequence = PyInt(1)
    /\ given[r].total = PyInt(1)

\* C6 (as claimed): the mapping of the fresh scenario record has
\* data_type "CommandMetadata", the apid given and valid False.
C6_DataTypeCommandMetadata ==
    (ret.kind = "dict" /\ C6_Scenario(ret.self))
    => /\ ret.value["data_type"] = PyStr("CommandMetadata")
       /\ ret.value["apid"] = given[ret.self].apid
       /\ ret.value["valid"] = PyBool(FALSE)

\* C6 (amended): the mapping of the fresh scenario record has data_type
\* "CmdMetaData" (the name of the class), the apid given and valid False.
C6_DataTypeClassName ==
    (ret.kind = "dict" /\ C6_Scenario(ret.self))
    => /\ ret.value["data_type"] = PyStr("CmdMetaData")
       /\ ret.value["apid"] = given[ret.self].apid
       /\ ret.value["valid"] = PyBool(FALSE)

\* The scenario record has been marshalled.
C6_Witness ==
    /\ ret.kind = "dict"
    /\ C6_Scenario(ret.self)
    /\ DOMAIN given[ret.self] = {"payload_string", "apid", "sequence", "total"}

\* C7: after every step a record's processors list holds exactly the names
\* appended to it, in call order, and the list before the step is a prefix
\* of the list after it.
C7_TrailAppendOnly ==
    [][\A r \in DOMAIN rec' :
          /\ Processors(r)' = appended'[r]
          /\ r \in DOMAIN rec => IsPrefix(Processors(r), Processors(r)')]_vars

\* Two appends, then marshall, on a finalized record.
C7_Witness ==
    /\ Primary \in DOMAIN rec
    /\ Processors(Primary) = <<"framer", "encoder">>
    /\ rec[Primary].finish_time_gps # None
    /\ ret.kind = "dict"

\* Both records exist, were constructed with the same arguments and have
\* been through the same stage updates.
C8_SameHistory ==
    /\ Records \subseteq DOMAIN rec
    /\ given[Primary] = given[Sibling]
    /\ pos = Len(script)

\* C8: two records constructed with the same arguments and taken through
\* the same stage updates marshall to mappings that agree, read as Python
\* compares them, under every key but uid, start_time_gps, finish_time_gps.
C8_MarshallDeterministic ==
    C8_SameHistory
    => \A k \in DOMAIN marshall(rec[Primary])
              \ {"uid", "start_time_gps", "finish_time_gps"} :
          Seen(marshall(rec[Primary]), heap)[k] = Seen(marshall(rec[Sibling]), heap)[k]

\* Two script commands (sequence=2, total=5), constructed at different
\* times with different uids, after two stage updates each.
C8_Witness ==
    /\ C8_SameHistory
    /\ given[Primary] = [sequence |-> PyInt(2), total |-> PyInt(5)]
    /\ Len(script) = 2
    /\ script[1][1] = "processors"
    /\ rec[Primary].uid # rec[Sibling].uid
    /\ rec[Primary].start_time_gps # rec[Sibling].start_time_gps

\* C9: a step that appends to one record's processors leaves the
\* processors of every other record as they were.
C9_NoSharedTrail ==
    [][\A r \in DOMAIN rec : \A o \in DOMAIN rec \ {r} :
          appended'[r] # appended[r] => Processors(o)' = Processors(o)]_vars

\* Both records hold a trail of their own.
C9_Witness ==
    /\ Records \subseteq DOMAIN rec
    /\ Processors(Primary) = <<"encoder", "framer">>
    /\ Processors(Sibling) = <<"framer">>

\* C10 (as claimed): marshall leaves the record as it is, and a mapping
\* that was returned shows the same values after any later step.
C10_MarshallSnapshot ==
    [][/\ (ret' # ret /\ ret'.kind = "dict") => (rec' = rec /\ heap' = heap)
       /\ (ret.kind = "dict" /\ ret' = ret)
             => Seen(ret.value, heap') = Seen(ret.value, heap)]_vars

====
